---- MODULE Spec2Model ----
(***************************************************************************)
(* Model of the two scripts of the repository:                             *)
(*   train_classifier_baseline.py  main(): the training driver, one loop   *)
(*                                 iteration per cross-validation fold;    *)
(*   retinopathy/scripts/compute_cv.py: the cross-validation aggregator.   *)
(* Each script is a sequential process; pc / cvpc hold its position.       *)
(* Optional values (None or a value) are sequences of length 0 or 1.       *)
(* Strings that are assembled at run time (checkpoint prefix, paths) are   *)
(* sequences of string pieces; concatenation is \o.                        *)
(***************************************************************************)
EXTENDS Integers, Sequences, FiniteSets, TLC

VARIABLES
    args,               \* parsed command line (lines 64-90)
    pc,                 \* position of main()
    folds,              \* the list the for loop walks (lines 94-97)
    fi,                 \* 1-based position in folds of the current iteration
    fold,               \* loop variable: <<>> is None, <<n>> is n
    checkpoint_prefix,  \* line 98-104
    log_dir,            \* line 191
    locals,             \* object-valued local variables of main
    ti,                 \* position of the transfer loop in pretrained_dict
    printed,            \* lines printed by the current loop iteration
    raised,             \* exceptions raised in the current loop iteration
    calls,              \* arguments of the latest external calls
    started,            \* positions of folds whose loop body was entered
    completed,          \* positions of folds trained and cleaned
    failed,             \* positions of folds whose body raised uncaught
    disk,               \* compute_cv.py: the files at the listed paths
    cvpc,               \* position of compute_cv.py
    ci,                 \* compute_cv.py: index of the next checkpoint
    cv,                 \* compute_cv.py: the list cv
    cvout,              \* compute_cv.py: printed values
    cvraised            \* compute_cv.py: exceptions raised

drv_vars == <<args, pc, folds, fi, fold, checkpoint_prefix, log_dir, locals, ti,
              printed, raised, calls, started, completed, failed>>
cv_vars == <<disk, cvpc, ci, cv, cvout, cvraised>>
vars == <<drv_vars, cv_vars>>

(***************************************************************************)
(* Bounds of the model.                                                    *)
(***************************************************************************)
\* longest list of --fold options explored
MaxFolds == 2
\* largest number of command-line option groups given together
MaxGiven == 2
\* latest epoch of a resume checkpoint on disk
MaxCkpt == 2
\* kappa scores of the aggregator range over -MaxKappa..MaxKappa
MaxKappa == 1

(***************************************************************************)
(* Optional values and string pieces.                                      *)
(***************************************************************************)
None == <<>>
Some(x) == <<x>>
IsNone(o) == Len(o) = 0
Val(o) == o[1]

\* Python truthiness of an Optional[int]: None and 0 are false.
Truthy(o) == ~IsNone(o) /\ Val(o) # 0

DigitStr == <<"0", "1", "2", "3", "4", "5", "6", "7", "8", "9">>

RECURSIVE Decimal(_)
\* str(n) for n >= 0, as a sequence of digit pieces
Decimal(n) ==
    IF n < 10 THEN <<DigitStr[n + 1]>>
    ELSE Decimal(n \div 10) \o <<DigitStr[(n % 10) + 1]>>

\* f'{fold}' : an int formats as its decimal digits, None as "None"
FormatFold(f) == IF IsNone(f) THEN <<"None">> ELSE Decimal(Val(f))

\* os.path.join(a, b) for relative b
PathJoin(a, b) == a \o <<"/">> \o b

(***************************************************************************)
(* Command line (lines 31-90).                                             *)
(***************************************************************************)
RECURSIVE SeqsUpTo(_, _)
SeqsUpTo(S, n) ==
    IF n = 0 THEN {<<>>}
    ELSE LET shorter == SeqsUpTo(S, n - 1)
         IN  shorter \cup {Append(s, x) : s \in shorter, x \in S}

\* fold indices given on the command line: the first and the last of the
\* folds=4 split (line 170)
FoldIds == {0, 3}
\* -f is action='append' with default None: None, or a non-empty list
FoldArgs == {None} \cup {Some(s) : s \in SeqsUpTo(FoldIds, MaxFolds) \ {<<>>}}
\* -es is type=int with default None: None, or a patience
EarlyStoppingArgs == {None, Some(0), Some(5)}
ModelNames == {"cls_resnet18"}

AllArgs ==
    [fold : FoldArgs, transfer : BOOLEAN, checkpoint : BOOLEAN,
     mixup : BOOLEAN, show : BOOLEAN, early_stopping : EarlyStoppingArgs,
     use_idrid : BOOLEAN, use_messidor : BOOLEAN, use_aptos2015 : BOOLEAN,
     swa : BOOLEAN, freeze_encoder : BOOLEAN, model : ModelNames]

B2N(b) == IF b THEN 1 ELSE 0

\* number of option groups present on the command line; the three --use-*
\* dataset flags are one group, the three callback options another
Given(a) ==
    B2N(~IsNone(a.fold)) + B2N(a.transfer) + B2N(a.checkpoint)
    + B2N(a.mixup \/ a.show \/ ~IsNone(a.early_stopping))
    + B2N(a.use_idrid \/ a.use_messidor \/ a.use_aptos2015)
    + B2N(a.swa) + B2N(a.freeze_encoder)

ArgsSet == {a \in AllArgs : Given(a) <= MaxGiven}

(***************************************************************************)
(* Objects held by local variables.  Every value has a kind, the loop      *)
(* iteration that created it (iter) and the objects it refers to (refs).   *)
(***************************************************************************)
Unbound == [kind |-> "unbound", iter |-> 0, refs |-> {}]
PyNone == [kind |-> "None", iter |-> 0, refs |-> {}]

LocalNames ==
    {"model", "checkpoint", "pretrained_dict", "criterion", "parameters",
     "optimizer", "train_ds", "valid_ds", "train_loader", "valid_loader",
     "loaders", "scheduler", "callbacks", "runner"}

Obj(k, i, r) == [kind |-> k, iter |-> i, refs |-> r]
Ref(o) == <<o.kind, o.iter>>

\* locals with the bindings of b replacing those of l
Bind(l, b) == [n \in LocalNames |-> IF n \in DOMAIN b THEN b[n] ELSE l[n]]

\* del a, b, ... : the names become unbound
Del(l, names) == [n \in LocalNames |-> IF n \in names THEN Unbound ELSE l[n]]

(***************************************************************************)
(* Tensors, state dicts and torch's Module.load_state_dict.                *)
(***************************************************************************)
Params == {"encoder.weight", "fc.weight"}
\* iteration order of a state dict
TensorOrder == <<"encoder.weight", "fc.weight">>

Tensor(s, d) == [shape |-> s, data |-> d]
\* parameters of a model fresh from get_model (lines 107-108)
InitParams == [p \in Params |-> Tensor("model_shape", "init")]

\* load_state_dict without the shape check: every named tensor is copied
LoadStateDictUnchecked(params, sd, strict) ==
    [params |-> [p \in Params |-> IF p \in DOMAIN sd THEN sd[p] ELSE params[p]],
     error |-> strict /\ (Params # DOMAIN sd)]

\* Module.load_state_dict(sd, strict): tensors of sd whose name and shape
\* match are copied in place; a shape mismatch is an error whatever strict
\* is; missing and unexpected names are errors only when strict.  The
\* copies are made before the RuntimeError for the errors is raised.
LoadStateDict(params, sd, strict) ==
    LET matching == {p \in Params \cap DOMAIN sd : sd[p].shape = params[p].shape}
        mismatch == {p \in Params \cap DOMAIN sd : sd[p].shape # params[p].shape}
        missing == Params \ DOMAIN sd
        unexpected == DOMAIN sd \ Params
    IN  [params |-> [p \in Params |-> IF p \in matching THEN sd[p] ELSE params[p]],
         error |-> mismatch # {} \/ (strict /\ (missing # {} \/ unexpected # {}))]

\* collections.OrderedDict([(name, value)]) (line 120)
SingleEntry(item) == [n \in {item.name} |-> item.value]

(***************************************************************************)
(* Files the environment may hold at the --transfer and --checkpoint       *)
(* paths.  A file is Optional: None is a path with no file.                *)
(***************************************************************************)
\* state dicts of donor checkpoints, as item lists in iteration order
RECURSIVE DonorItems(_)
DonorItems(i) ==
    IF i > Len(TensorOrder) THEN {<<>>}
    ELSE LET rest == DonorItems(i + 1)
             n == TensorOrder[i]
             shapes == {"model_shape", "other_shape"}
         IN  rest \cup {<<[name |-> n, value |-> Tensor(s, "donor")]>> \o r :
                          s \in shapes, r \in rest}

\* a donor checkpoint: model_state_dict is None when the key is absent
DonorFiles ==
    {[model_state_dict |-> Some(items)] : items \in DonorItems(1)}
    \cup {[model_state_dict |-> None]}

MetricsOf(s) ==
    [train |-> [kappa_score |-> 6 * s, accuracy01 |-> 6 * s + 1, loss |-> 6 * s + 2],
     valid |-> [kappa_score |-> 6 * s + 3, accuracy01 |-> 6 * s + 4, loss |-> 6 * s + 5]]

Defects ==
    {"ok", "no_epoch", "no_metrics", "no_optimizer", "head_only_optimizer",
     "bad_model"}

\* a resume checkpoint written at epoch s, with one of the defects
ResumeFile(s, d) ==
    [model_state_dict |->
        [p \in Params |->
            Tensor(IF d = "bad_model" /\ p = "fc.weight" THEN "other_shape"
                   ELSE "model_shape", "resumed")],
     epoch |-> IF d = "no_epoch" THEN None ELSE Some(s),
     epoch_metrics |-> IF d = "no_metrics" THEN None ELSE Some(MetricsOf(s)),
     optimizer_state_dict |->
        IF d = "no_optimizer" THEN None
        ELSE IF d = "head_only_optimizer" THEN Some("head_only")
        ELSE Some("all_params")]

\* sound checkpoints of epochs 1..MaxCkpt, and one of each defect
ResumeFiles ==
    {ResumeFile(s, "ok") : s \in 1..MaxCkpt}
    \cup {ResumeFile(1, d) : d \in Defects}

\* get_random_name()
RandomNames == {"brave_fox", "calm_owl"}

\* a printed line: what is printed, the exception text if any, the values
Line(t, m, v) == [tag |-> t, msg |-> m, vals |-> v]

(***************************************************************************)
(* Pure parts of main().                                                   *)
(***************************************************************************)
\* lines 94-95: no --fold (or an empty list) runs once with fold None
NormalizeFolds(f) ==
    IF IsNone(f) \/ Len(Val(f)) = 0 THEN <<None>>
    ELSE [i \in 1..Len(Val(f)) |-> Some(Val(f)[i])]

\* lines 98-104
CheckpointPrefix(a, rnd, f) ==
    <<a.model, "_", rnd, "_fold">> \o FormatFold(f)
    \o (IF a.use_aptos2015 THEN <<"_aptos2015">> ELSE <<>>)
    \o (IF a.use_messidor THEN <<"_messidor">> ELSE <<>>)
    \o (IF a.use_idrid THEN <<"_idrid">> ELSE <<>>)

\* the flags joined by "or" instead of "and"
OversampleFactorAny(a) ==
    IF ~(a.use_idrid \/ a.use_messidor \/ a.use_aptos2015) THEN 2 ELSE 1

\* lines 172 and 176
OversampleFactor(a) ==
    LET not_using_extra_data ==
            ~(a.use_idrid /\ a.use_messidor /\ a.use_aptos2015)
    IN  IF not_using_extra_data THEN 2 ELSE 1

\* lines 189 and 191
LogDir(a, prefix) ==
    PathJoin(<<"runs">>, <<"classification", "/", a.model, "/">> \o prefix)

\* line 271
BestCheckpoint(dir) == PathJoin(PathJoin(dir, <<"checkpoints">>), <<"best.pth">>)

\* the destination named without the checkpoint prefix
ModelCheckpointUntagged(dir, prefix) ==
    PathJoin(PathJoin(dir, <<"checkpoints">>), <<"model", "_best.pth">>)

\* line 272
ModelCheckpoint(dir, prefix) ==
    PathJoin(PathJoin(dir, <<"checkpoints">>), prefix \o <<"_best.pth">>)

\* lines 232-250
Callbacks(a) ==
    <<[cb |-> "AccuracyCallback", arg |-> None, metric |-> "", minimize |-> FALSE],
      [cb |-> "CappaScoreCallback", arg |-> None, metric |-> "", minimize |-> FALSE],
      [cb |-> "ConfusionMatrixCallback", arg |-> None, metric |-> "", minimize |-> FALSE],
      [cb |-> "NegativeMiningCallback", arg |-> None, metric |-> "", minimize |-> FALSE]>>
    \o (IF a.mixup
        THEN <<[cb |-> "MixupCallback", arg |-> None, metric |-> "",
                minimize |-> FALSE]>>
        ELSE <<>>)
    \o (IF Truthy(a.early_stopping)
        THEN <<[cb |-> "EarlyStoppingCallback", arg |-> a.early_stopping,
                metric |-> "kappa_score", minimize |-> FALSE]>>
        ELSE <<>>)
    \o (IF a.show
        THEN <<[cb |-> "ShowPolarBatchesCallback", arg |-> None,
                metric |-> "accuracy01", minimize |-> FALSE]>>
        ELSE <<>>)

\* the train and valid metrics printed under each other's heading
ResumeLinesSwapped(c) ==
    LET m == Val(c.epoch_metrics)
    IN  <<Line("Loaded model weights from:", "", <<>>),
          Line("Epoch", "", <<Val(c.epoch)>>),
          Line("Metrics (Train)", "",
               <<m.valid.kappa_score, m.valid.accuracy01, m.valid.loss>>),
          Line("Metrics (Valid)", "",
               <<m.train.kappa_score, m.train.accuracy01, m.train.loss>>)>>

\* lines 130-143: the four lines printed for a resumed checkpoint
ResumeLines(c) ==
    LET m == Val(c.epoch_metrics)
    IN  <<Line("Loaded model weights from:", "", <<>>),
          Line("Epoch", "", <<Val(c.epoch)>>),
          Line("Metrics (Train)", "",
               <<m.train.kappa_score, m.train.accuracy01, m.train.loss>>),
          Line("Metrics (Valid)", "",
               <<m.valid.kappa_score, m.valid.accuracy01, m.valid.loss>>)>>

\* line 269
Disposed ==
    {"runner", "callbacks", "loaders", "optimizer", "model", "criterion",
     "scheduler"}

(***************************************************************************)
(* Exceptions.  main() has no handler around the loop body: an exception   *)
(* that no try block catches unwinds main and ends the process.            *)
(***************************************************************************)
Exc(site, msg) == [site |-> site, msg |-> msg]

\* a loop body wrapped in try/except: the exception ends the fold only
UncaughtEndsFoldOnly(site, msg) ==
    /\ pc' = "loop"
    /\ raised' = Append(raised, Exc(site, msg))
    /\ failed' = failed \cup {fi}

\* an exception raised at site that nothing catches (lines 97-273)
Uncaught(site, msg) ==
    /\ pc' = "crashed"
    /\ raised' = Append(raised, Exc(site, msg))
    /\ failed' = failed \cup {fi}

\* a handler that prints and re-raises
CaughtReraised(site, msg, line, next) ==
    /\ pc' = "crashed"
    /\ raised' = Append(raised, Exc(site, msg))
    /\ failed' = failed \cup {fi}
    /\ printed' = Append(printed, line)

\* except Exception as e: print(...) (lines 121-122 and 158-159), then on
Caught(site, msg, line, next) ==
    /\ pc' = next
    /\ raised' = Append(raised, Exc(site, msg))
    /\ failed' = failed
    /\ printed' = Append(printed, line)

\* a step that raises nothing and prints lines
Goes(next, lines) ==
    /\ pc' = next
    /\ raised' = raised
    /\ failed' = failed
    /\ printed' = printed \o lines

NoCalls == [get_dataloaders |-> None, train |-> None, clean_checkpoint |-> None]

(***************************************************************************)
(* The training driver.                                                    *)
(***************************************************************************)
InitDriver ==
    /\ args \in ArgsSet
    /\ pc = "start"
    /\ folds = <<>>
    /\ fi = 0
    /\ fold = None
    /\ checkpoint_prefix = <<>>
    /\ log_dir = <<>>
    /\ locals = [n \in LocalNames |-> Unbound]
    /\ ti = 0
    /\ printed = <<>>
    /\ raised = <<>>
    /\ calls = NoCalls
    /\ started = {}
    /\ completed = {}
    /\ failed = {}

\* lines 94-95
SetFolds ==
    /\ pc = "start"
    /\ folds' = NormalizeFolds(args.fold)
    /\ Goes("loop", <<>>)
    /\ UNCHANGED cv_vars
    /\ UNCHANGED <<args, fi, fold, checkpoint_prefix, log_dir, locals, ti,
                   calls, started, completed>>

\* line 97: the next fold, or the end of main
NextFold ==
    /\ pc = "loop"
    /\ IF fi < Len(folds)
       THEN /\ fi' = fi + 1
            /\ fold' = folds[fi + 1]
            /\ started' = started \cup {fi + 1}
            /\ pc' = "prefix"
            /\ printed' = <<>>
            /\ raised' = <<>>
            /\ calls' = NoCalls
       ELSE /\ pc' = "done"
            /\ UNCHANGED <<fi, fold, started, printed, raised, calls>>
    /\ UNCHANGED cv_vars
    /\ UNCHANGED <<args, folds, checkpoint_prefix, log_dir, locals, ti,
                   completed, failed>>

\* lines 98-108
BuildModel ==
    /\ pc = "prefix"
    /\ \E rnd \in RandomNames :
           checkpoint_prefix' = CheckpointPrefix(args, rnd, fold)
    /\ locals' = Bind(locals,
           [model |-> [kind |-> "model", iter |-> fi, refs |-> {},
                       params |-> InitParams, trained |-> FALSE]])
    /\ Goes(IF args.transfer THEN "transfer" ELSE "resume", <<>>)
    /\ UNCHANGED cv_vars
    /\ UNCHANGED <<args, folds, fi, fold, log_dir, ti, calls, started,
                   completed>>

\* lines 110-115
TransferLoad ==
    /\ pc = "transfer"
    /\ \E file \in {None} \cup {Some(f) : f \in DonorFiles} :
          IF IsNone(file)
          THEN \* fs.auto_file finds no file
               /\ Uncaught("transfer", "FileNotFoundError")
               /\ UNCHANGED <<locals, ti, printed>>
          ELSE IF IsNone(Val(file).model_state_dict)
          THEN \* checkpoint['model_state_dict']
               /\ Uncaught("transfer", "KeyError")
               /\ printed' = Append(printed,
                      Line("Transfering weights from model checkpoint", "", <<>>))
               /\ locals' = Bind(locals,
                      [checkpoint |-> [kind |-> "dict", iter |-> fi, refs |-> {},
                                       content |-> Val(file)]])
               /\ ti' = ti
          ELSE LET items == Val(Val(file).model_state_dict)
               IN  /\ locals' = Bind(locals,
                          [checkpoint |-> [kind |-> "dict", iter |-> fi,
                                           refs |-> {}, content |-> Val(file)],
                           pretrained_dict |-> [kind |-> "dict", iter |-> fi,
                                                refs |-> {}, items |-> items]])
                   /\ ti' = 1
                   /\ Goes(IF Len(items) = 0 THEN "resume" ELSE "transfer_loop",
                           <<Line("Transfering weights from model checkpoint",
                                  "", <<>>)>>)
    /\ UNCHANGED cv_vars
    /\ UNCHANGED <<args, folds, fi, fold, checkpoint_prefix, log_dir, calls,
                   started, completed>>

\* lines 117-122: one iteration of the loop over pretrained_dict.items()
TransferStep ==
    /\ pc = "transfer_loop"
    /\ LET items == locals["pretrained_dict"].items
           item == items[ti]
           res == LoadStateDict(locals["model"].params, SingleEntry(item), FALSE)
           next == IF ti = Len(items) THEN "resume" ELSE "transfer_loop"
       IN  /\ locals' = Bind(locals,
                  [model |-> [locals["model"] EXCEPT !.params = res.params]])
           /\ IF res.error
              THEN Caught("transfer_loop", item.name,
                          Line("exception", item.name, <<>>), next)
              ELSE Goes(next, <<>>)
    /\ ti' = ti + 1
    /\ UNCHANGED cv_vars
    /\ UNCHANGED <<args, folds, fi, fold, checkpoint_prefix, log_dir, calls,
                   started, completed>>

\* lines 124-127
ResumeLoad ==
    /\ pc = "resume"
    /\ IF ~args.checkpoint
       THEN /\ locals' = Bind(locals, [checkpoint |-> PyNone])
            /\ Goes("build_opt", <<>>)
       ELSE \E file \in {None} \cup {Some(f) : f \in ResumeFiles} :
              IF IsNone(file)
              THEN \* fs.auto_file finds no file
                   /\ locals' = Bind(locals, [checkpoint |-> PyNone])
                   /\ Uncaught("resume", "FileNotFoundError")
                   /\ printed' = printed
              ELSE LET res == LoadStateDict(locals["model"].params,
                                            Val(file).model_state_dict, TRUE)
                   IN  /\ locals' = Bind(locals,
                              [checkpoint |-> [kind |-> "dict", iter |-> fi,
                                               refs |-> {}, content |-> Val(file)],
                               model |-> [locals["model"] EXCEPT
                                             !.params = res.params]])
                       /\ IF res.error
                          THEN /\ Uncaught("resume", "RuntimeError")
                               /\ printed' = printed
                          ELSE Goes("resume_print", <<>>)
    /\ UNCHANGED cv_vars
    /\ UNCHANGED <<args, folds, fi, fold, checkpoint_prefix, log_dir, ti,
                   calls, started, completed>>

\* lines 129-143
ResumePrint ==
    /\ pc = "resume_print"
    /\ LET c == locals["checkpoint"].content
       IN  IF IsNone(c.epoch)
           THEN \* checkpoint['epoch']
                /\ Uncaught("resume_print", "KeyError")
                /\ printed' = printed
           ELSE IF IsNone(c.epoch_metrics)
           THEN \* checkpoint['epoch_metrics'], after the first two lines
                /\ Uncaught("resume_print", "KeyError")
                /\ printed' = printed \o
                      <<Line("Loaded model weights from:", "", <<>>),
                        Line("Epoch", "", <<Val(c.epoch)>>)>>
           ELSE Goes("build_opt", ResumeLines(c))
    /\ UNCHANGED cv_vars
    /\ UNCHANGED <<args, folds, fi, fold, checkpoint_prefix, log_dir, locals, ti,
                   calls, started, completed>>

\* lines 145-152
BuildOptimizer ==
    /\ pc = "build_opt"
    /\ locals' = Bind(locals,
           [criterion |-> Obj("criterion", fi, {}),
            parameters |-> Obj("parameters", fi, {}),
            optimizer |-> [kind |-> "optimizer", iter |-> fi, refs |-> {},
                           groups |-> IF args.freeze_encoder THEN "head_only"
                                      ELSE "all_params",
                           state |-> "fresh", swa |-> FALSE]])
    /\ Goes(IF locals["checkpoint"].kind # "None" THEN "restore_opt"
            ELSE "datasets", <<>>)
    /\ UNCHANGED cv_vars
    /\ UNCHANGED <<args, folds, fi, fold, checkpoint_prefix, log_dir, ti,
                   calls, started, completed>>

\* lines 154-159
RestoreOptimizer ==
    /\ pc = "restore_opt"
    /\ LET saved == locals["checkpoint"].content.optimizer_state_dict
           opt == locals["optimizer"]
       IN  IF IsNone(saved)
           THEN /\ Caught("restore_opt", "KeyError",
                          Line("Failed to restore optimizer state from checkpoint",
                               "KeyError", <<>>), "datasets")
                /\ locals' = locals
           ELSE IF Val(saved) # opt.groups
           THEN /\ Caught("restore_opt", "ValueError",
                          Line("Failed to restore optimizer state from checkpoint",
                               "ValueError", <<>>), "datasets")
                /\ locals' = locals
           ELSE /\ Goes("datasets",
                        <<Line("Restored optimizer state from checkpoint", "",
                               <<>>)>>)
                /\ locals' = Bind(locals,
                       [optimizer |-> [opt EXCEPT !.state = "restored"]])
    /\ UNCHANGED cv_vars
    /\ UNCHANGED <<args, folds, fi, fold, checkpoint_prefix, log_dir, ti,
                   calls, started, completed>>

\* lines 161-170
GetDatasets ==
    /\ pc = "datasets"
    /\ \E found \in BOOLEAN :
          IF found
          THEN /\ locals' = Bind(locals,
                      [train_ds |-> Obj("dataset", fi, {}),
                       valid_ds |-> Obj("dataset", fi, {})])
               /\ Goes("loaders", <<>>)
          ELSE \* the data directory is missing
               /\ Uncaught("datasets", "FileNotFoundError")
               /\ UNCHANGED <<locals, printed>>
    /\ UNCHANGED cv_vars
    /\ UNCHANGED <<args, folds, fi, fold, checkpoint_prefix, log_dir, ti,
                   calls, started, completed>>

\* lines 172-187
GetDataloaders ==
    /\ pc = "loaders"
    /\ calls' = [calls EXCEPT !.get_dataloaders =
                     Some([oversample_factor |-> OversampleFactor(args)])]
    /\ LET loader == Obj("loader", fi, {<<"dataset", fi>>})
           opt == locals["optimizer"]
       IN  locals' = Bind(locals,
              [train_loader |-> loader,
               valid_loader |-> loader,
               optimizer |-> IF args.swa
                             THEN [opt EXCEPT !.swa = TRUE,
                                              !.refs = {<<"optimizer", fi>>}]
                             ELSE opt,
               loaders |-> Obj("dict", fi, {<<"loader", fi>>})])
    /\ Goes("logdir", <<>>)
    /\ UNCHANGED cv_vars
    /\ UNCHANGED <<args, folds, fi, fold, checkpoint_prefix, log_dir, ti,
                   started, completed>>

\* lines 189-197
MakeLogDir ==
    /\ pc = "logdir"
    /\ log_dir' = LogDir(args, checkpoint_prefix)
    /\ \E exists \in BOOLEAN :
          IF exists
          THEN \* os.makedirs(log_dir, exist_ok=False): an earlier run or an
               \* earlier fold left a directory of that name
               /\ Uncaught("logdir", "FileExistsError")
               /\ UNCHANGED <<locals, printed>>
          ELSE /\ locals' = Bind(locals,
                      [scheduler |-> Obj("scheduler", fi, {<<"optimizer", fi>>})])
               /\ Goes("train", <<>>)
    /\ UNCHANGED cv_vars
    /\ UNCHANGED <<args, folds, fi, fold, checkpoint_prefix, ti, calls, started,
                   completed>>

\* lines 199-267
Train ==
    /\ pc = "train"
    /\ calls' = [calls EXCEPT !.train =
                     Some([main_metric |-> "kappa_score",
                           minimize_metric |-> FALSE,
                           callbacks |-> Callbacks(args),
                           logdir |-> log_dir])]
    /\ \E ok \in BOOLEAN :
          /\ locals' = Bind(locals,
                 [callbacks |-> Obj("list", fi, {}),
                  runner |-> Obj("runner", fi, {<<"model", fi>>}),
                  model |-> [locals["model"] EXCEPT
                                !.trained = ok,
                                !.params = [p \in Params |->
                                    IF ok THEN Tensor(@[p].shape, "trained")
                                    ELSE @[p]]]])
          /\ IF ok
             THEN Goes("dispose", <<Line("run summary", "", <<>>)>>)
             ELSE \* runner.train raises
                  /\ Uncaught("train", "RuntimeError")
                  /\ printed' = Append(printed, Line("run summary", "", <<>>))
    /\ UNCHANGED cv_vars
    /\ UNCHANGED <<args, folds, fi, fold, checkpoint_prefix, log_dir, ti,
                   started, completed>>

\* line 269
Dispose ==
    /\ pc = "dispose"
    /\ locals' = Del(locals, Disposed)
    /\ Goes("clean", <<>>)
    /\ UNCHANGED cv_vars
    /\ UNCHANGED <<args, folds, fi, fold, checkpoint_prefix, log_dir, ti,
                   calls, started, completed>>

\* lines 271-273
CleanCheckpoint ==
    /\ pc = "clean"
    /\ calls' = [calls EXCEPT !.clean_checkpoint =
                     Some([src |-> BestCheckpoint(log_dir),
                           dst |-> ModelCheckpoint(log_dir, checkpoint_prefix)])]
    /\ \E ok \in BOOLEAN :
          IF ok
          THEN /\ completed' = completed \cup {fi}
               /\ Goes("loop", <<>>)
          ELSE \* clean_checkpoint raises
               /\ Uncaught("clean", "RuntimeError")
               /\ UNCHANGED <<completed, printed>>
    /\ UNCHANGED cv_vars
    /\ UNCHANGED <<args, folds, fi, fold, checkpoint_prefix, log_dir, locals, ti,
                   started>>

Next ==
    \/ SetFolds
    \/ NextFold
    \/ BuildModel
    \/ TransferLoad
    \/ TransferStep
    \/ ResumeLoad
    \/ ResumePrint
    \/ BuildOptimizer
    \/ RestoreOptimizer
    \/ GetDatasets
    \/ GetDataloaders
    \/ MakeLogDir
    \/ Train
    \/ Dispose
    \/ CleanCheckpoint

(***************************************************************************)
(* The cross-validation aggregator, compute_cv.py.                         *)
(* Numbers are exact rationals [num, den] in lowest terms with den > 0;    *)
(* NaN is what numpy returns for the mean of no values.                    *)
(***************************************************************************)
Abs(n) == IF n < 0 THEN 0 - n ELSE n

RECURSIVE Gcd(_, _)
Gcd(a, b) == IF b = 0 THEN a ELSE Gcd(b, a % b)

\* n / d for d # 0
Rat(n, d) ==
    LET g == Gcd(Abs(n), Abs(d))
        sgn == IF d < 0 THEN 0 - 1 ELSE 1
    IN  [num |-> sgn * (n \div g), den |-> sgn * (d \div g)]

NaN == [num |-> 0, den |-> 0]
RSub(a, b) == Rat(a.num * b.den - b.num * a.den, a.den * b.den)
RAdd(a, b) == Rat(a.num * b.den + b.num * a.den, a.den * b.den)
RMul(a, b) == Rat(a.num * b.num, a.den * b.den)

RECURSIVE RSum(_)
RSum(x) == IF Len(x) = 0 THEN Rat(0, 1) ELSE RAdd(x[1], RSum(Tail(x)))

\* the square root of a rational r >= 0, kept as the number whose square is r
Sqrt(r) == [sq |-> r]

\* np.mean(x) for a list of integers (line 31)
NpMean(x) ==
    IF Len(x) = 0 THEN NaN
    ELSE RMul(RSum([i \in 1..Len(x) |-> Rat(x[i], 1)]), Rat(1, Len(x)))

\* the sample standard deviation (ddof=1)
NpStdSample(x) ==
    IF Len(x) < 2 THEN Sqrt(NaN)
    ELSE LET m == NpMean(x)
             dev == [i \in 1..Len(x) |-> RSub(Rat(x[i], 1), m)]
             sq == [i \in 1..Len(x) |-> RMul(dev[i], dev[i])]
         IN  Sqrt(RMul(RSum(sq), Rat(1, Len(x) - 1)))

\* np.std(x) with the default ddof=0: sqrt(mean(abs(x - x.mean()) ** 2))
\* (line 32)
NpStd(x) ==
    IF Len(x) = 0 THEN Sqrt(NaN)
    ELSE LET m == NpMean(x)
             dev == [i \in 1..Len(x) |-> RSub(Rat(x[i], 1), m)]
             sq == [i \in 1..Len(x) |-> RMul(dev[i], dev[i])]
         IN  Sqrt(RMul(RSum(sq), Rat(1, Len(x))))

\* lines 19-24
Checkpoints ==
    <<"runs/classification/cls_resnext50_gap/fold_3/Jul18_08_57_ce_fp16/checkpoints/best.pth",
      "runs/classification/cls_resnext50_gap/fold_2/Jul18_03_48_ce_fp16/checkpoints/best.pth",
      "runs/classification/cls_resnext50_gap/fold_1/Jul18_00_54_ce_fp16/checkpoints/best.pth",
      "runs/classification/cls_resnext50_gap/fold_0/Jul17_22_37_ce_fp16/checkpoints/best.pth">>

KappaValues == (0 - MaxKappa)..MaxKappa

\* what torch.load may find at a path: no file (None), or a checkpoint whose
\* 'valid_metrics' and 'kappa_score' keys are present or not
CvFiles ==
    {None}
    \cup {Some([valid_metrics |-> None])}
    \cup {Some([valid_metrics |-> Some([kappa_score |-> None])])}
    \cup {Some([valid_metrics |-> Some([kappa_score |-> Some(k)])]) :
             k \in KappaValues}

\* checkpoint['valid_metrics']['kappa_score'] can be read (line 29)
Readable(file) ==
    /\ ~IsNone(file)
    /\ ~IsNone(Val(file).valid_metrics)
    /\ ~IsNone(Val(Val(file).valid_metrics).kappa_score)

KappaOf(file) == Val(Val(Val(file).valid_metrics).kappa_score)

\* a loop that skips the checkpoint it cannot read
CvSkip(msg) ==
    /\ cvpc' = IF ci = Len(Checkpoints) THEN "print_mean" ELSE "load"
    /\ ci' = ci + 1
    /\ cvraised' = Append(cvraised, msg)
    /\ UNCHANGED <<cv, cvout>>

\* an exception at module level: nothing catches it (lines 27-29)
CvAbort(msg) ==
    /\ cvpc' = "aborted"
    /\ cvraised' = Append(cvraised, msg)
    /\ UNCHANGED <<ci, cv, cvout>>

InitCV ==
    /\ disk \in [1..Len(Checkpoints) -> CvFiles]
    /\ cvpc = "load"
    /\ ci = 1
    /\ cv = <<>>
    /\ cvout = <<>>
    /\ cvraised = <<>>

\* lines 27-29: one iteration of the loop over checkpoints
CvLoad ==
    /\ cvpc = "load"
    /\ LET file == disk[ci]
       IN  IF IsNone(file)
           THEN CvAbort("FileNotFoundError")
           ELSE IF ~Readable(file)
           THEN CvAbort("KeyError")
           ELSE /\ cv' = Append(cv, KappaOf(file))
                /\ ci' = ci + 1
                /\ cvpc' = IF ci = Len(Checkpoints) THEN "print_mean" ELSE "load"
                /\ UNCHANGED <<cvout, cvraised>>
    /\ UNCHANGED disk
    /\ UNCHANGED drv_vars

\* line 31
CvPrintMean ==
    /\ cvpc = "print_mean"
    /\ cvout' = Append(cvout, NpMean(cv))
    /\ cvpc' = "print_std"
    /\ UNCHANGED <<disk, ci, cv, cvraised>>
    /\ UNCHANGED drv_vars

\* line 32
CvPrintStd ==
    /\ cvpc = "print_std"
    /\ cvout' = Append(cvout, NpStd(cv))
    /\ cvpc' = "done"
    /\ UNCHANGED <<disk, ci, cv, cvraised>>
    /\ UNCHANGED drv_vars

NextCV ==
    \/ CvLoad
    \/ CvPrintMean
    \/ CvPrintStd

\* main() is not running
IdleDriver ==
    /\ args = [fold |-> None, transfer |-> FALSE, checkpoint |-> FALSE,
               mixup |-> FALSE, show |-> FALSE, early_stopping |-> None,
               use_idrid |-> FALSE, use_messidor |-> FALSE,
               use_aptos2015 |-> FALSE, swa |-> FALSE,
               freeze_encoder |-> FALSE, model |-> "cls_resnet18"]
    /\ pc = "idle"
    /\ folds = <<>>
    /\ fi = 0
    /\ fold = None
    /\ checkpoint_prefix = <<>>
    /\ log_dir = <<>>
    /\ locals = [n \in LocalNames |-> Unbound]
    /\ ti = 0
    /\ printed = <<>>
    /\ raised = <<>>
    /\ calls = NoCalls
    /\ started = {}
    /\ completed = {}
    /\ failed = {}

\* compute_cv.py is not running
IdleCV ==
    /\ disk = [i \in 1..Len(Checkpoints) |-> None]
    /\ cvpc = "idle"
    /\ ci = 0
    /\ cv = <<>>
    /\ cvout = <<>>
    /\ cvraised = <<>>

\* a run of train_classifier_baseline.py
Init == InitDriver /\ IdleCV
Spec == Init /\ [][Next]_vars

\* a run of compute_cv.py
InitAggregator == IdleDriver /\ InitCV
SpecCV == InitAggregator /\ [][NextCV]_vars

(***************************************************************************)
(* Helpers of the properties.                                              *)
(***************************************************************************)
Last(q) == q[Len(q)]

\* the pieces of a path after its last separator
Basename(path) ==
    LET slashes == {i \in 1..Len(path) : path[i] = "/"}
        last == IF slashes = {} THEN 0
                ELSE CHOOSE i \in slashes : \A j \in slashes : j <= i
    IN  SubSeq(path, last + 1, Len(path))

\* the pieces of a path before its last separator
Dirname(path) == SubSeq(path, 1, Len(path) - Len(Basename(path)) - 1)

\* part occurs in whole as a run of consecutive pieces
Contains(whole, part) ==
    \E i \in 1..(Len(whole) - Len(part) + 1) :
        SubSeq(whole, i, i + Len(part) - 1) = part

SumOver(x) == LET RECURSIVE S(_)
                  S(i) == IF i = 0 THEN 0 ELSE x[i] + S(i - 1)
              IN  S(Len(x))

Squares(x) == [i \in 1..Len(x) |-> x[i] * x[i]]

(***************************************************************************)
(* C1: after the transfer loop every donor tensor whose name and shape     *)
(* match a model parameter has been copied into the model, and every       *)
(* other model parameter still holds its initial value.                    *)
(***************************************************************************)
C1_TransferCopiesMatching ==
    (pc = "resume" /\ args.transfer) =>
        LET items == locals["pretrained_dict"].items
            params == locals["model"].params
        IN  \A p \in Params :
               LET donors == {i \in 1..Len(items) :
                                 /\ items[i].name = p
                                 /\ items[i].value.shape = InitParams[p].shape}
               IN  IF donors # {}
                   THEN \A i \in donors : params[p] = items[i].value
                   ELSE params[p] = InitParams[p]

\* a donor with one matching tensor and one of another shape was transferred
C1_Witness ==
    /\ pc = "resume"
    /\ args.transfer
    /\ locals["model"].params["encoder.weight"].data = "donor"
    /\ locals["model"].params["fc.weight"].data = "init"
    /\ \E i \in 1..Len(raised) : raised[i] = Exc("transfer_loop", "fc.weight")

(***************************************************************************)
(* C2: the oversample_factor passed to get_dataloaders is 1 when           *)
(* --use-idrid, --use-messidor and --use-aptos2015 are all set and 2 for   *)
(* every other combination of the three flags.                             *)
(***************************************************************************)
C2_OversampleFactor ==
    ~IsNone(calls.get_dataloaders) =>
        LET f == Val(calls.get_dataloaders).oversample_factor
            set == {x \in {"idrid", "messidor", "aptos2015"} :
                       \/ x = "idrid" /\ args.use_idrid
                       \/ x = "messidor" /\ args.use_messidor
                       \/ x = "aptos2015" /\ args.use_aptos2015}
        IN  /\ Cardinality(set) = 3 => f = 1
            /\ Cardinality(set) < 3 => f = 2

\* loaders were built with exactly two of the three flags set
C2_Witness ==
    /\ ~IsNone(calls.get_dataloaders)
    /\ args.use_idrid /\ args.use_messidor /\ ~args.use_aptos2015
    /\ Val(calls.get_dataloaders).oversample_factor = 2

(***************************************************************************)
(* C3 as claimed: when a fold's run fails, every other requested fold is   *)
(* still trained and has its best checkpoint copied.                       *)
(***************************************************************************)
C3_OtherFoldsUnaffected ==
    pc \in {"done", "crashed"} =>
        \A i \in 1..Len(folds) : i \notin failed => i \in completed

(***************************************************************************)
(* C3 amended: a fold that fails ends the process; the folds before it     *)
(* were trained and cleaned, the folds after it are never started.         *)
(***************************************************************************)
C3_FailureEndsRun ==
    \A i \in failed :
        /\ pc = "crashed"
        /\ i = fi
        /\ completed = 1..(i - 1)
        /\ started = 1..i

\* the first of several folds failed
C3_Witness ==
    /\ pc = "crashed"
    /\ failed = {1}
    /\ Len(folds) > 1

(***************************************************************************)
(* C4 as claimed: no exception raised during weight transfer or during     *)
(* the optimizer-state restore ends the process.                           *)
(***************************************************************************)
C4_RestoreNeverFatal ==
    pc = "crashed" =>
        Last(raised).site \notin {"transfer", "transfer_loop", "restore_opt"}

(***************************************************************************)
(* C4 amended: an exception raised by the per-tensor load_state_dict call  *)
(* of the transfer loop or by the optimizer restore is printed and does    *)
(* not end the process; an exception raised while the donor checkpoint is  *)
(* located, loaded or indexed ends it.                                     *)
(***************************************************************************)
C4_BestEffortSites ==
    \A i \in 1..Len(raised) :
        /\ raised[i].site \in {"transfer_loop", "restore_opt"} =>
              /\ ~(pc = "crashed" /\ i = Len(raised))
              /\ \E j \in 1..Len(printed) : printed[j].msg = raised[i].msg
        /\ raised[i].site = "transfer" => (pc = "crashed" /\ i = Len(raised))

\* training returned in a fold that caught an exception of the transfer loop
\* and an exception of the optimizer restore
C4_Witness ==
    /\ pc = "dispose"
    /\ \E i \in 1..Len(raised) : raised[i].site = "transfer_loop"
    /\ \E i \in 1..Len(raised) : raised[i].site = "restore_opt"

(***************************************************************************)
(* C5: the destination passed to clean_checkpoint is a file of the fold's  *)
(* log directory whose name holds the model name and the fold tag (the     *)
(* formatted fold, "None" without --fold); the source is best.pth in the   *)
(* same directory, a name with neither.                                    *)
(***************************************************************************)
C5_DestinationTagged ==
    ~IsNone(calls.clean_checkpoint) =>
        LET c == Val(calls.clean_checkpoint)
            tag == <<"_fold">> \o FormatFold(fold)
        IN  /\ Contains(Basename(c.dst), tag)
            /\ Contains(Basename(c.dst), <<args.model>>)
            /\ Contains(c.dst, tag) /\ Contains(c.dst, <<args.model>>)
            /\ Basename(c.src) = <<"best.pth">>
            /\ Dirname(c.src) = PathJoin(log_dir, <<"checkpoints">>)
            /\ Dirname(c.dst) = Dirname(c.src)
            /\ IsNone(fold) = IsNone(args.fold)
            /\ ~IsNone(fold) => Val(fold) = Val(args.fold)[fi]

\* the run without --fold copied its checkpoint
C5_Witness ==
    /\ ~IsNone(calls.clean_checkpoint)
    /\ IsNone(args.fold)
    /\ fi \in completed

(***************************************************************************)
(* C6: with --checkpoint the epoch and the train and valid kappa_score,    *)
(* accuracy01 and loss printed are those stored in the loaded checkpoint,  *)
(* and the model holds that checkpoint's weights before the first line is  *)
(* printed.                                                                *)
(***************************************************************************)
C6_ResumePrintsStored ==
    LET c == locals["checkpoint"].content
        stored(j) ==
            CASE printed[j].tag = "Epoch" -> <<Val(c.epoch)>>
              [] printed[j].tag = "Metrics (Train)" ->
                    <<Val(c.epoch_metrics).train.kappa_score,
                      Val(c.epoch_metrics).train.accuracy01,
                      Val(c.epoch_metrics).train.loss>>
              [] printed[j].tag = "Metrics (Valid)" ->
                    <<Val(c.epoch_metrics).valid.kappa_score,
                      Val(c.epoch_metrics).valid.accuracy01,
                      Val(c.epoch_metrics).valid.loss>>
        resumeTags == {"Epoch", "Metrics (Train)", "Metrics (Valid)"}
    IN  /\ pc = "resume_print" =>
              /\ locals["model"].params = c.model_state_dict
              /\ \A j \in 1..Len(printed) :
                     printed[j].tag \notin
                         resumeTags \cup {"Loaded model weights from:"}
        /\ \A j \in 1..Len(printed) :
              printed[j].tag \in resumeTags => printed[j].vals = stored(j)
        /\ (pc = "build_opt" /\ args.checkpoint) =>
              /\ locals["model"].params = c.model_state_dict
              /\ {printed[j].tag : j \in 1..Len(printed)} \cap resumeTags
                    = resumeTags

\* the four lines of a checkpoint of epoch 2 were printed
C6_Witness ==
    /\ pc = "build_opt"
    /\ args.checkpoint
    /\ \E j \in 1..Len(printed) :
           printed[j].tag = "Metrics (Valid)" /\ printed[j].vals = <<15, 16, 17>>

(***************************************************************************)
(* C7: the aggregator reads one kappa_score per listed checkpoint, in list *)
(* order, and prints their arithmetic mean and then their population       *)
(* standard deviation.                                                     *)
(***************************************************************************)
C7_MeanAndPopulationStd ==
    cvpc = "done" =>
        LET n == Len(Checkpoints)
            sum == SumOver(cv)
            sumsq == SumOver(Squares(cv))
        IN  /\ Len(cv) = n
            /\ \A i \in 1..n : cv[i] = KappaOf(disk[i])
            /\ Len(cvout) = 2
            \* mean = sum / n
            /\ cvout[1].den > 0
            /\ cvout[1].num * n = sum * cvout[1].den
            \* std squared = (n * sumsq - sum^2) / n^2
            /\ cvout[2].sq.den > 0
            /\ cvout[2].sq.num * n * n = (n * sumsq - sum * sum) * cvout[2].sq.den

\* four checkpoints with kappa 1, 1, -1, 0 were aggregated
C7_Witness ==
    /\ cvpc = "done"
    /\ cv = <<1, 1, 0 - 1, 0>>
    /\ cvout[1] = [num |-> 1, den |-> 4]
    /\ cvout[2].sq = [num |-> 11, den |-> 16]

(***************************************************************************)
(* C8: when a listed checkpoint file is missing or lacks the validation    *)
(* metric, the aggregator aborts and prints neither the mean nor the       *)
(* standard deviation.                                                     *)
(***************************************************************************)
C8_FailFast ==
    (\E i \in 1..Len(Checkpoints) : ~Readable(disk[i])) =>
        /\ cvout = <<>>
        /\ cvpc \in {"load", "aborted"}
        /\ cvpc = "aborted" =>
              /\ Len(cvraised) = 1
              /\ ~Readable(disk[ci])
              /\ \A i \in 1..(ci - 1) : Readable(disk[i])

\* the last checkpoint lacks the metric after three were read
C8_Witness ==
    /\ cvpc = "aborted"
    /\ Len(cv) = 3
    /\ cvraised = <<"KeyError">>

(***************************************************************************)
(* C9 as claimed: when the loop body of fold i+1 begins, no local variable *)
(* of main refers to the runner, optimizer, model or loaders of fold i.    *)
(***************************************************************************)
C9_PriorFoldDisposed ==
    (pc = "prefix" /\ fi > 1) =>
        LET prior == {<<k, fi - 1>> : k \in {"runner", "optimizer", "model", "loader"}}
        IN  \A n \in LocalNames :
               /\ Ref(locals[n]) \notin prior
               /\ locals[n].refs \cap prior = {}

(***************************************************************************)
(* C10 as claimed: every training call has main metric kappa_score,        *)
(* maximized, the four fixed callbacks, the mixup callback exactly with    *)
(* --mixup, the early-stopping callback (kappa_score, maximized) exactly   *)
(* when an --early-stopping patience is given, and the batch visualization *)
(* callback exactly with --show.                                           *)
(***************************************************************************)
C10_Callbacks ==
    ~IsNone(calls.train) =>
        LET t == Val(calls.train)
            names == {t.callbacks[i].cb : i \in 1..Len(t.callbacks)}
        IN  /\ t.main_metric = "kappa_score"
            /\ ~t.minimize_metric
            /\ {"AccuracyCallback", "CappaScoreCallback",
                 "ConfusionMatrixCallback", "NegativeMiningCallback"}
                  \subseteq names
            /\ ("MixupCallback" \in names) = args.mixup
            /\ ("ShowPolarBatchesCallback" \in names) = args.show
            /\ ("EarlyStoppingCallback" \in names) = ~IsNone(args.early_stopping)
            /\ \A i \in 1..Len(t.callbacks) :
                   t.callbacks[i].cb = "EarlyStoppingCallback" =>
                       /\ t.callbacks[i].metric = "kappa_score"
                       /\ ~t.callbacks[i].minimize

====
